---- MODULE Spec2Model ----
(***************************************************************************)
(* Model of the Hindi cartoon video generator backend (src/main.py): the   *)
(* POST /api/generate handler generate_video, the files it writes under    *)
(* VIDEOS_DIR, the clip objects it opens and the response it produces.     *)
(*                                                                         *)
(* Strings are sequences of one-character strings, so that strip(),        *)
(* replace(), os.path.join() and path resolution are computed character by *)
(* character.  Seconds are whole numbers.                                  *)
(***************************************************************************)
EXTENDS Integers, Sequences, FiniteSets

VARIABLES
    workload,     \* which clients, request bodies and narration lengths occur
    pc,           \* pc[r]: position of request r inside generate_video
    title,        \* req.title   (<<>> is None, <<t>> is the string t)
    scenes,       \* req.scenes  (sequence of Scene records)
    temp_id,      \* local temp_id (the uuid4 string), <<>> before line 162
    audio_paths,  \* local audio_paths: the path strings appended at line 174
    clips,        \* local clips: the clip records appended at line 182
    out_name,     \* local out_name after line 186, <<>> before
    live,         \* clip objects opened by the request and not yet closed
    outcome,      \* how the call of generate_video ended
    fs,           \* regular files present on disk (resolved locations)
    writes        \* <<r, location>>: request r created or wrote the file

vars == <<workload, pc, title, scenes, temp_id, audio_paths, clips, out_name,
          live, outcome, fs, writes>>

----------------------------------------------------------------------------
\* Bounds of the model.

NReq == 2          \* concurrent requests
MaxTitleLen == 4   \* longest title, in characters
MaxScenes == 2     \* longest scene list
MaxDuration == 3   \* longest requested duration, in seconds
MaxAudio == 3      \* longest synthesized narration, in seconds

\* Field(5.0, gt=1, le=60) of Scene.duration.
DurationGt == 1
DurationLe == 60

Requests == 1..NReq

----------------------------------------------------------------------------
\* Strings.

Alphabet == {"a", " ", "\t", "/", "."}

IsSpace(c) == c \in {" ", "\t", "\n", "\r"}

Strings(n) == UNION {[1..k -> Alphabet] : k \in 0..n}

EndsWith(s, suffix) ==
    /\ Len(s) >= Len(suffix)
    /\ SubSeq(s, Len(s) - Len(suffix) + 1, Len(s)) = suffix

\* str.strip(): leading and trailing whitespace removed.
RECURSIVE LStrip(_)
LStrip(s) == IF s # <<>> /\ IsSpace(Head(s)) THEN LStrip(Tail(s)) ELSE s

RECURSIVE RStrip(_)
RStrip(s) ==
    IF s # <<>> /\ IsSpace(s[Len(s)]) THEN RStrip(SubSeq(s, 1, Len(s) - 1)) ELSE s

StripNone(s) == s

Strip(s) == RStrip(LStrip(s))

\* str.replace(old, new) for one-character old and new.
Replace(s, old, new) == [i \in 1..Len(s) |-> IF s[i] = old THEN new ELSE s[i]]

CartoonVideo == <<"c", "a", "r", "t", "o", "o", "n", "_", "v", "i", "d", "e", "o">>
Mp4 == <<".", "m", "p", "4">>
Mp3 == <<".", "m", "p", "3">>
Png == <<".", "p", "n", "g">>
AvatarPrefix == <<"a", "v", "a", "t", "a", "r", "_">>
ScenePrefix == <<"s", "c", "e", "n", "e", "_">>
UrlPrefix == <<"/", "v", "i", "d", "e", "o", "s", "/">>
Digits == <<"0", "1", "2", "3", "4", "5", "6", "7", "8", "9">>

\* str(uuid.uuid4()): a fixed-length string, different for every call.
TokenChars == <<"b", "f", "9", "8", "7", "6">>
Uuid4(r) == <<TokenChars[r]>>

\* f"{idx}" for the scene index.
Str(idx) == <<Digits[idx + 1]>>

----------------------------------------------------------------------------
\* Paths.

Cwd == <<"/", "a", "p", "p">>

\* os.path.join(a, b) for an absolute a.
Join(a, b) ==
    IF b # <<>> /\ Head(b) = "/" THEN b
    ELSE IF a[Len(a)] = "/" THEN a \o b
    ELSE a \o <<"/">> \o b

VIDEOS_DIR == Join(Cwd, <<"v", "i", "d", "e", "o", "s">>)

\* The components of a path string, split at "/".
RECURSIVE Split(_)
Split(s) ==
    IF s = <<>> THEN << <<>> >>
    ELSE LET rest == Split(Tail(s))
         IN IF Head(s) = "/" THEN << <<>> >> \o rest
            ELSE << <<Head(s)>> \o Head(rest) >> \o Tail(rest)

Components(s) == SelectSeq(Split(s), LAMBDA c : c # <<>>)

\* The directories that exist: "/", the working directory and VIDEOS_DIR
\* (os.makedirs at start-up).  Nothing in the program creates another one.
VideosDir == Components(VIDEOS_DIR)
Dirs == {<<>>, Components(Cwd), VideosDir}

Parent(d) == IF d = <<>> THEN <<>> ELSE SubSeq(d, 1, Len(d) - 1)

NoDir == << <<"?">> >>

\* The directory reached from cur by the components cs, as open(2) walks
\* them: every component must name an existing directory.
RECURSIVE Walk(_, _)
Walk(cs, cur) ==
    IF cs = <<>> THEN cur
    ELSE LET c == Head(cs)
         IN IF c = <<>> \/ c = <<".">> THEN Walk(Tail(cs), cur)
            ELSE IF c = <<".", ".">> THEN Walk(Tail(cs), Parent(cur))
            ELSE IF Append(cur, c) \in Dirs THEN Walk(Tail(cs), Append(cur, c))
            ELSE NoDir

\* Where an absolute path string lands when a file is created there:
\* ok is FALSE when a directory on the way is missing or the last
\* component is not a file name.
Resolve(p) ==
    LET cs == Split(p)
        last == cs[Len(cs)]
        dir == Walk(SubSeq(cs, 1, Len(cs) - 1), <<>>)
    IN IF \/ dir = NoDir
          \/ last \in {<<>>, <<".">>, <<".", ".">>}
          \/ Append(dir, last) \in Dirs
       THEN [ok |-> FALSE, dir |-> <<>>, name |-> <<>>]
       ELSE [ok |-> TRUE, dir |-> dir, name |-> last]

Location(p) == [dir |-> Resolve(p).dir, name |-> Resolve(p).name]

\* The files served under /videos: those directly inside VIDEOS_DIR.
AssetStore == {f \in fs : f.dir = VideosDir}

----------------------------------------------------------------------------
\* Request bodies (after pydantic validation) and the environment.

Max(a, b) == IF a >= b THEN a ELSE b

Durations == {d \in 1..MaxDuration : d > DurationGt /\ d <= DurationLe}

\* mood: Optional[str]; <<>> is None (which the handler reads as "happy").
Moods == {<<>>, <<"sad">>}

Scene == [duration : Durations, mood : Moods]

SceneLists == UNION {[1..k -> Scene] : k \in 0..MaxScenes}

Titles == {<<>>} \cup {<<t>> : t \in Strings(MaxTitleLen)}

PlainScene == [duration |-> 2, mood |-> <<>>]

\* Several clients at once, a few request bodies (identical ones included,
\* and a title that spells another request's token).
ConcurrentLoad ==
    [clients |-> Requests,
     titles  |-> {<<>>, << <<"b">> >>},
     scenes  |-> {<<>>, <<PlainScene>>},
     audio   |-> {3}]

\* One client, every title.
TitleLoad ==
    [clients |-> {1},
     titles  |-> Titles,
     scenes  |-> {<<>>, <<PlainScene>>},
     audio   |-> {3}]

\* One client, every scene list and narration length.
SceneLoad ==
    [clients |-> {1},
     titles  |-> {<<>>},
     scenes  |-> SceneLists,
     audio   |-> 1..MaxAudio]

Loads == [concurrent |-> ConcurrentLoad, titles |-> TitleLoad, scenes |-> SceneLoad]

Load == Loads[workload]

----------------------------------------------------------------------------
\* How a call of generate_video ends.

Running == [kind |-> "running", status |-> 0, detail |-> <<>>,
            file_name |-> <<>>, video_url |-> <<>>]

\* raise HTTPException(status_code=..., detail=...)
HTTPException(status_code, detail) ==
    [kind |-> "http", status |-> status_code, detail |-> detail,
     file_name |-> <<>>, video_url |-> <<>>]

\* An exception that leaves generate_video without being caught in it.
Unhandled(msg) ==
    [kind |-> "unhandled", status |-> 0, detail |-> <<msg>>,
     file_name |-> <<>>, video_url |-> <<>>]

\* return {"video_url": f"/videos/{out_name}", "file_name": out_name}
Returned(name) ==
    [kind |-> "returned", status |-> 200, detail |-> <<>>,
     file_name |-> name, video_url |-> UrlPrefix \o name]

\* except Exception as e: raise HTTPException(500, f"Failed to generate video: {str(e)}")
Failed(msg) == HTTPException(500, <<"Failed to generate video: ", msg>>)

----------------------------------------------------------------------------
\* The pieces of generate_video.

\* if not req.scenes or len(req.scenes) == 0
RejectEmptyNever(s) == FALSE

RejectEmpty(s) == Len(s) = 0

\* face_png = os.path.join(VIDEOS_DIR, f"avatar_{temp_id}.png")
FacePng(id) == Join(VIDEOS_DIR, AvatarPrefix \o id \o Png)

\* audio_path = os.path.join(VIDEOS_DIR, f"scene_{temp_id}_{idx}.mp3")
AudioPath(id, idx) == Join(VIDEOS_DIR, ScenePrefix \o id \o <<"_">> \o Str(idx) \o Mp3)

\* duration = max(sc.duration, scene_audio.duration)
EffectiveDurationRequested(requested, audio) == requested

EffectiveDuration(requested, audio) == Max(requested, audio)

\* make_scene_clip: a 1280x720 composite of `duration` seconds, background
\* tinted by mood (the avatar's motion is not modelled).
make_scene_clip(duration, mood) ==
    [duration |-> duration,
     bg_color |-> IF mood = "happy" THEN <<240, 255, 240>> ELSE <<240, 240, 255>>,
     audio    |-> 0]

\* clip.set_audio(scene_audio): the clip keeps its duration.
set_audio(clip, audio) == [clip EXCEPT !.audio = audio]

\* out_name = (req.title or "cartoon_video").strip().replace(" ", "_")
\* out_name = f"{out_name}_{temp_id}.mp4"
OutNameNoToken(t, id) ==
    Replace(Strip(IF t = <<>> \/ t[1] = <<>> THEN CartoonVideo ELSE t[1]), " ", "_") \o Mp4

OutName(t, id) ==
    Replace(Strip(IF t = <<>> \/ t[1] = <<>> THEN CartoonVideo ELSE t[1]), " ", "_")
        \o <<"_">> \o id \o Mp4

\* out_path = os.path.join(VIDEOS_DIR, out_name)
OutPath(name) == Join(VIDEOS_DIR, name)

\* Clip objects: the AudioFileClip and the composite clip of scene i, and
\* the concatenated final clip.
AudioClip(i) == [kind |-> "audio", i |-> i]
SceneClip(i) == [kind |-> "clip", i |-> i]
FinalClip == [kind |-> "final", i |-> 0]

\* for c in clips: c.close();  final.close()
\* (closing a composite clip closes the audio attached to it)
Closed(n) == {SceneClip(i) : i \in 1..n} \cup {AudioClip(i) : i \in 1..n} \cup {FinalClip}

\* The files the finally block removes.
CleanupTargetsWithAudio(r) ==
    {Location(FacePng(temp_id[r]))}
        \cup {Location(audio_paths[r][j]) : j \in 1..Len(audio_paths[r])}

CleanupTargets(r) == {Location(FacePng(temp_id[r]))}

\* The loop `for idx, sc in enumerate(req.scenes)` and what follows it.
Stage(done, s) == IF done < Len(s) THEN "tts" ELSE "assemble"

----------------------------------------------------------------------------
\* Start-up: VIDEOS_DIR exists and is empty, no request has arrived.

InitWith(load) ==
    /\ workload = load
    /\ pc = [r \in Requests |-> "idle"]
    /\ title = [r \in Requests |-> <<>>]
    /\ scenes = [r \in Requests |-> <<>>]
    /\ temp_id = [r \in Requests |-> <<>>]
    /\ audio_paths = [r \in Requests |-> <<>>]
    /\ clips = [r \in Requests |-> <<>>]
    /\ out_name = [r \in Requests |-> <<>>]
    /\ live = [r \in Requests |-> {}]
    /\ outcome = [r \in Requests |-> Running]
    /\ fs = {}
    /\ writes = {}

Init == InitWith("concurrent")
InitTitles == InitWith("titles")
InitScenes == InitWith("scenes")

\* POST /api/generate arrives with a valid body; lines 155-156.
Receive(r) ==
    /\ pc[r] = "idle"
    /\ r \in Load.clients
    /\ \E t \in Load.titles, s \in Load.scenes :
        /\ title' = [title EXCEPT ![r] = t]
        /\ scenes' = [scenes EXCEPT ![r] = s]
        /\ IF RejectEmpty(s)
           THEN /\ outcome' = [outcome EXCEPT ![r] =
                                 HTTPException(400, <<"At least one scene is required">>)]
                /\ pc' = [pc EXCEPT ![r] = "done"]
           ELSE /\ outcome' = outcome
                /\ pc' = [pc EXCEPT ![r] = "render"]
    /\ UNCHANGED <<workload, temp_id, audio_paths, clips, out_name, live, fs, writes>>

\* Lines 162-166: the token, the avatar image, the empty lists.  This is
\* before the try block: an exception of make_cartoon_face_png leaves
\* generate_video directly.  img.save may fail after creating the file.
RenderAvatar(r) ==
    /\ pc[r] = "render"
    /\ temp_id' = [temp_id EXCEPT ![r] = Uuid4(r)]
    /\ LET face == Location(FacePng(Uuid4(r)))
       IN \/ /\ fs' = fs \cup {face}
             /\ writes' = writes \cup {<<r, face>>}
             /\ pc' = [pc EXCEPT ![r] = Stage(0, scenes[r])]
             /\ outcome' = outcome
          \/ /\ \E partial \in BOOLEAN :
                  /\ fs' = IF partial THEN fs \cup {face} ELSE fs
                  /\ writes' = IF partial THEN writes \cup {<<r, face>>} ELSE writes
             /\ outcome' = [outcome EXCEPT ![r] = Unhandled("render error")]
             /\ pc' = [pc EXCEPT ![r] = "done"]
    /\ UNCHANGED <<workload, title, scenes, audio_paths, clips, out_name, live>>

\* Lines 172-174: narration of scene idx.  tts.save may fail after creating
\* the file; the path is appended only when it returns.
Narrate(r) ==
    /\ pc[r] = "tts"
    /\ LET idx == Len(clips[r])
           audio_path == AudioPath(temp_id[r], idx)
           file == Location(audio_path)
       IN \/ /\ fs' = fs \cup {file}
             /\ writes' = writes \cup {<<r, file>>}
             /\ audio_paths' = [audio_paths EXCEPT ![r] = Append(@, audio_path)]
             /\ pc' = [pc EXCEPT ![r] = "compose"]
             /\ outcome' = outcome
          \/ /\ \E partial \in BOOLEAN :
                  /\ fs' = IF partial THEN fs \cup {file} ELSE fs
                  /\ writes' = IF partial THEN writes \cup {<<r, file>>} ELSE writes
             /\ audio_paths' = audio_paths
             /\ outcome' = [outcome EXCEPT ![r] = Failed("tts error")]
             /\ pc' = [pc EXCEPT ![r] = "finally"]
    /\ UNCHANGED <<workload, title, scenes, temp_id, clips, out_name, live>>

\* Lines 175-182: open the audio, compute the duration, build the clip.
Compose(r) ==
    /\ pc[r] = "compose"
    /\ LET i == Len(clips[r]) + 1
           sc == scenes[r][i]
           mood == IF sc.mood = <<>> THEN "happy" ELSE sc.mood[1]
       IN \/ \E scene_audio \in Load.audio :
               LET duration == EffectiveDuration(sc.duration, scene_audio)
                   clip == set_audio(make_scene_clip(duration, mood), scene_audio)
               IN /\ clips' = [clips EXCEPT ![r] = Append(@, clip)]
                  /\ live' = [live EXCEPT ![r] = @ \cup {AudioClip(i), SceneClip(i)}]
                  /\ pc' = [pc EXCEPT ![r] = Stage(i, scenes[r])]
                  /\ outcome' = outcome
          \/ \* AudioFileClip(audio_path) raises
             /\ clips' = clips
             /\ live' = live
             /\ outcome' = [outcome EXCEPT ![r] = Failed("audio error")]
             /\ pc' = [pc EXCEPT ![r] = "finally"]
          \/ \* make_scene_clip or set_audio raises, the audio being open
             /\ clips' = clips
             /\ live' = [live EXCEPT ![r] = @ \cup {AudioClip(i)}]
             /\ outcome' = [outcome EXCEPT ![r] = Failed("compose error")]
             /\ pc' = [pc EXCEPT ![r] = "finally"]
    /\ UNCHANGED <<workload, title, scenes, temp_id, audio_paths, out_name, fs, writes>>

\* Lines 184-201: concatenate, name the output, encode it, close the clips
\* and return.
Assemble(r) ==
    /\ pc[r] = "assemble"
    /\ LET name == OutName(title[r], temp_id[r])
           out_path == OutPath(name)
           file == Location(out_path)
       IN \/ \* concatenate_videoclips raises
             /\ out_name' = out_name
             /\ live' = live
             /\ fs' = fs
             /\ writes' = writes
             /\ outcome' = [outcome EXCEPT ![r] = Failed("concatenate error")]
          \/ \* write_videofile raises; the file may have been created
             /\ out_name' = [out_name EXCEPT ![r] = name]
             /\ live' = [live EXCEPT ![r] = @ \cup {FinalClip}]
             /\ \E partial \in BOOLEAN :
                  /\ fs' = IF partial /\ Resolve(out_path).ok THEN fs \cup {file} ELSE fs
                  /\ writes' = IF partial /\ Resolve(out_path).ok
                               THEN writes \cup {<<r, file>>} ELSE writes
             /\ outcome' = [outcome EXCEPT ![r] = Failed("write error")]
          \/ \* the file is written
             /\ Resolve(out_path).ok
             /\ out_name' = [out_name EXCEPT ![r] = name]
             /\ fs' = fs \cup {file}
             /\ writes' = writes \cup {<<r, file>>}
             /\ live' = [live EXCEPT ![r] = (@ \cup {FinalClip}) \ Closed(Len(clips[r]))]
             /\ outcome' = [outcome EXCEPT ![r] = Returned(name)]
    /\ pc' = [pc EXCEPT ![r] = "finally"]
    /\ UNCHANGED <<workload, title, scenes, temp_id, audio_paths, clips>>

\* Lines 204-210: the finally block.  os.remove may raise; that is swallowed.
Cleanup(r) ==
    /\ pc[r] = "finally"
    /\ \E removed \in BOOLEAN :
         fs' = IF Location(FacePng(temp_id[r])) \in fs /\ removed
               THEN fs \ CleanupTargets(r) ELSE fs
    /\ pc' = [pc EXCEPT ![r] = "done"]
    /\ UNCHANGED <<workload, title, scenes, temp_id, audio_paths, clips, out_name,
                   live, outcome, writes>>

Next ==
    \E r \in Requests :
        \/ Receive(r)
        \/ RenderAvatar(r)
        \/ Narrate(r)
        \/ Compose(r)
        \/ Assemble(r)
        \/ Cleanup(r)

Spec == Init /\ [][Next]_vars
SpecTitles == InitTitles /\ [][Next]_vars
SpecScenes == InitScenes /\ [][Next]_vars

----------------------------------------------------------------------------
\* Properties.

Started(r) == temp_id[r] # <<>>

Embeds(name, id) ==
    \E i \in 1..(Len(name) - Len(id) + 1) : SubSeq(name, i, i + Len(id) - 1) = id

\* C1: once a request that passed validation has finished, its avatar image
\* avatar_<token>.png is no longer in the Asset Store, on every exit path.
C1_AvatarGoneAtEnd ==
    \A r \in Requests :
        (pc[r] = "done" /\ Started(r)) => Location(FacePng(temp_id[r])) \notin AssetStore

\* C2: every exception of avatar render, narration, composition or assembly
\* reaches the caller as the 500 whose detail embeds the exception's message;
\* none leaves generate_video uncaught.
C2_PipelineFailureIs500 ==
    \A r \in Requests :
        (pc[r] = "done" /\ Started(r) /\ outcome[r].kind # "returned") =>
            /\ outcome[r].kind = "http"
            /\ outcome[r].status = 500
            /\ Len(outcome[r].detail) = 2
            /\ outcome[r].detail[1] = "Failed to generate video: "

\* C3: a request with an empty scene list ends with the 400 and nothing
\* else: it enters no pipeline stage, opens no clip and writes no file.
C3_EmptyScenesRejected ==
    \A r \in Requests :
        (pc[r] # "idle" /\ scenes[r] = <<>>) =>
            /\ pc[r] = "done"
            /\ outcome[r].kind = "http" /\ outcome[r].status = 400
            /\ ~Started(r)
            /\ audio_paths[r] = <<>> /\ clips[r] = <<>> /\ out_name[r] = <<>>
            /\ live[r] = {}
            /\ \A w \in writes : w[1] # r

C3_Witness ==
    \E r \in Requests :
        /\ pc[r] = "done" /\ scenes[r] = <<>> /\ outcome[r].status = 400
        /\ AssetStore # {}

\* C4: the duration of every composed clip is the larger of the requested
\* duration and the narration length: never below either, and one of them.
C4_EffectiveDuration ==
    \A r \in Requests : \A i \in 1..Len(clips[r]) :
        LET c == clips[r][i]
            sc == scenes[r][i]
        IN /\ c.duration >= sc.duration
           /\ c.duration >= c.audio
           /\ c.duration \in {sc.duration, c.audio}

C4_Witness ==
    \E r \in Requests : \E i, j \in 1..Len(clips[r]) :
        /\ clips[r][i].audio > scenes[r][i].duration
        /\ clips[r][i].duration = clips[r][i].audio
        /\ clips[r][j].audio < scenes[r][j].duration
        /\ clips[r][j].duration = scenes[r][j].duration

\* C5: no file is written by two different requests, and the name of every
\* file a request writes embeds that request's token.
C5_NoSharedFile ==
    /\ \A w1, w2 \in writes : w1[2] = w2[2] => w1[1] = w2[1]
    /\ \A w \in writes : Embeds(w[2].name, Uuid4(w[1]))

C5_Witness ==
    \E r1, r2 \in Requests :
        /\ r1 # r2
        /\ title[r1] = title[r2] /\ scenes[r1] = scenes[r2]
        /\ outcome[r1].kind = "returned" /\ outcome[r2].kind = "returned"

\* C6: on success file_name ends in ".mp4", video_url is "/videos/" followed
\* by file_name, and a file of exactly that name is in the Asset Store.
C6_ReturnedFileServed ==
    \A r \in Requests :
        outcome[r].kind = "returned" =>
            /\ EndsWith(outcome[r].file_name, Mp4)
            /\ outcome[r].video_url = UrlPrefix \o outcome[r].file_name
            /\ [dir |-> VideosDir, name |-> outcome[r].file_name] \in AssetStore

\* Every run of whitespace replaced by one "_".
RECURSIVE CollapseWhitespace(_)
CollapseWhitespace(s) ==
    IF s = <<>> THEN <<>>
    ELSE IF IsSpace(Head(s)) THEN <<"_">> \o CollapseWhitespace(LStrip(s))
    ELSE <<Head(s)>> \o CollapseWhitespace(Tail(s))

Suffix(r) == <<"_">> \o temp_id[r] \o Mp4

\* C7 as stated: the output name is <sanitizedTitle>_<token>.mp4, the
\* sanitized title being the title with every run of whitespace replaced by
\* a single "_", and "cartoon_video" when the title is absent (an empty
\* title counted as absent).
C7_CollapsedTitle ==
    \A r \in Requests :
        out_name[r] # <<>> =>
            out_name[r] =
                (IF title[r] = <<>> \/ title[r][1] = <<>>
                 THEN CartoonVideo ELSE CollapseWhitespace(title[r][1]))
                    \o Suffix(r)

\* body is t without its leading and trailing whitespace and with each
\* single space turned into "_".
StrippedAndReplaced(t, body) ==
    \E lo \in 1..(Len(t) + 1), hi \in 0..Len(t) :
        /\ lo <= hi + 1
        /\ \A i \in 1..(lo - 1) : IsSpace(t[i])
        /\ \A i \in (hi + 1)..Len(t) : IsSpace(t[i])
        /\ lo <= hi => (~IsSpace(t[lo]) /\ ~IsSpace(t[hi]))
        /\ Len(body) = hi - lo + 1
        /\ \A k \in 1..Len(body) :
             body[k] = IF t[lo + k - 1] = " " THEN "_" ELSE t[lo + k - 1]

\* C7 amended: the output name is <sanitizedTitle>_<token>.mp4, the
\* sanitized title being the title without its leading and trailing
\* whitespace and with every single space replaced by "_" (runs are not
\* collapsed, inner tabs stay), and "cartoon_video" when the title is absent
\* or empty.
C7_StrippedTitle ==
    \A r \in Requests :
        out_name[r] # <<>> =>
            /\ EndsWith(out_name[r], Suffix(r))
            /\ LET body == SubSeq(out_name[r], 1, Len(out_name[r]) - Len(Suffix(r)))
               IN IF title[r] = <<>> \/ title[r][1] = <<>>
                  THEN body = CartoonVideo
                  ELSE StrippedAndReplaced(title[r][1], body)

C7_Witness ==
    \E r \in Requests :
        /\ title[r] = << <<"a", " ", " ", "a">> >>
        /\ out_name[r] = <<"a", "_", "_", "a">> \o Suffix(r)
        /\ outcome[r].kind = "returned"

\* C8: every clip object a request created is closed when the request has
\* ended, on success and on failure.
C8_ClipsReleasedAtEnd ==
    \A r \in Requests : pc[r] = "done" => live[r] = {}

\* C9: the audio file of every scene whose synthesis completed is on disk,
\* and no file that was ever written is missing from the disk except avatar
\* images.
C9_AudioKept ==
    /\ \A r \in Requests : \A j \in 1..Len(audio_paths[r]) :
           Location(audio_paths[r][j]) \in AssetStore
    /\ \A w \in writes :
           w[2] \notin fs => w[2] = Location(FacePng(temp_id[w[1]]))

C9_Witness ==
    \E r \in Requests :
        /\ pc[r] = "done"
        /\ outcome[r].status = 500
        /\ Len(audio_paths[r]) = 2 /\ Len(clips[r]) = 1
        /\ Location(FacePng(temp_id[r])) \notin fs

\* C10: every file a request writes lies directly inside VIDEOS_DIR,
\* whatever the title.
C10_FilesInsideStore ==
    \A w \in writes : w[2].dir = VideosDir

====
